---- MODULE Spec2Model ----
(***************************************************************************)
(* A model of the /predict pipeline of soil-backend/app/main.py: bearer    *)
(* authentication, image fetch, colour/texture pre-filter, YOLO soil       *)
(* classification, mg/kg -> kg/ha conversion, range check, XGBoost crop    *)
(* classification, companion/avoid lookup, Supabase insert, response.      *)
(*                                                                         *)
(* Python strings are sequences of one-character strings, so that strip,   *)
(* lower, replace, capitalize, split and startswith are computed.          *)
(* Floats are fixed-point, in hundredths (Scale): 17 mg/kg is 1700, pH 4.9 *)
(* is 490, 58.65 kg/ha is 5865, a probability of 0.7 is 70.                *)
(***************************************************************************)
EXTENDS Integers, Sequences, FiniteSets, TLC

----------------------------------------------------------------------------
(* Python str methods *)

UpperChars == <<"A","B","C","D","E","F","G","H","I","J","K","L","M",
                "N","O","P","Q","R","S","T","U","V","W","X","Y","Z">>

LowerChars == <<"a","b","c","d","e","f","g","h","i","j","k","l","m",
                "n","o","p","q","r","s","t","u","v","w","x","y","z">>

Whitespace == {" ", "\t", "\n"}

LowerChar(c) ==
    IF \E i \in 1..Len(UpperChars) : UpperChars[i] = c
    THEN LowerChars[CHOOSE i \in 1..Len(UpperChars) : UpperChars[i] = c]
    ELSE c

UpperChar(c) ==
    IF \E i \in 1..Len(LowerChars) : LowerChars[i] = c
    THEN UpperChars[CHOOSE i \in 1..Len(LowerChars) : LowerChars[i] = c]
    ELSE c

\* str.lower()
Lower(s) == [i \in 1..Len(s) |-> LowerChar(s[i])]

\* str.capitalize(): first character upper-cased, the rest lower-cased
Capitalize(s) == [i \in 1..Len(s) |-> IF i = 1 THEN UpperChar(s[i]) ELSE LowerChar(s[i])]

\* str.startswith(prefix)
StartsWith(s, prefix) ==
    /\ Len(s) >= Len(prefix)
    /\ SubSeq(s, 1, Len(prefix)) = prefix

RECURSIVE LStrip(_)
LStrip(s) == IF s # <<>> /\ Head(s) \in Whitespace THEN LStrip(Tail(s)) ELSE s

RECURSIVE RStrip(_)
RStrip(s) ==
    IF s # <<>> /\ s[Len(s)] \in Whitespace THEN RStrip(SubSeq(s, 1, Len(s) - 1)) ELSE s

\* str.strip()
Strip(s) == RStrip(LStrip(s))

\* str.replace(old, new) for a non-empty old: leftmost, non-overlapping
RECURSIVE Replace(_, _, _)
Replace(s, old, new) ==
    IF s = <<>> THEN <<>>
    ELSE IF StartsWith(s, old)
         THEN new \o Replace(SubSeq(s, Len(old) + 1, Len(s)), old, new)
         ELSE <<Head(s)>> \o Replace(Tail(s), old, new)

\* str.split(sep) for a one-character sep: the pieces between separators
RECURSIVE SplitAcc(_, _, _)
SplitAcc(s, sep, cur) ==
    IF s = <<>> THEN <<cur>>
    ELSE IF Head(s) = sep
         THEN <<cur>> \o SplitAcc(Tail(s), sep, <<>>)
         ELSE SplitAcc(Tail(s), sep, Append(cur, Head(s)))

Split(s, sep) == SplitAcc(s, sep, <<>>)

\* Optional values: None is the empty sequence, a present value x is <<x>>
None == <<>>

Some(x) == <<x>>

----------------------------------------------------------------------------
(* Fixed-point arithmetic and program constants *)

\* A float x is held as the integer x * Scale
Scale == 100

\* SOIL_CONF_THRESHOLD = 0.5
SOIL_CONF_THRESHOLD == 50

\* CROP_TOP_PROB_THRESHOLD = 0.7
CROP_TOP_PROB_THRESHOLD == 70

\* NPK_MIN = 0, NPK_MAX = 500 (kg/ha)
NPK_MIN == 0

NPK_MAX == 50000

\* PH_MIN = 3.5, PH_MAX = 9.5
PH_MIN == 350

PH_MAX == 950

----------------------------------------------------------------------------
(* String literals of the program *)

s_sandy == <<"s","a","n","d","y">>

s_loamy == <<"l","o","a","m","y">>

s_clay == <<"c","l","a","y">>

s_silt == <<"s","i","l","t">>

s_Trained == <<"_","T","r","a","i","n","e","d">>

s_Bearer == <<"B","e","a","r","e","r"," ">>

s_no_crop == <<"n","o","_","c","r","o","p">>

s_No_soil_detected ==
    <<"N","o"," ","s","o","i","l"," ","d","e","t","e","c","t","e","d">>

----------------------------------------------------------------------------
(* convert_mgkg_to_kgha *)

\* bd_values: 1.6, 1.3, 1.15, 1.25 g/cm3
bd_values == (s_sandy :> 160) @@ (s_loamy :> 130) @@ (s_clay :> 115) @@ (s_silt :> 125)

\* The same conversion with the soil_type.lower() step left out
convert_no_lower(N_mgkg, P_mgkg, K_mgkg, soil_type) ==
    IF soil_type \notin DOMAIN bd_values
    THEN [raised |-> TRUE, value |-> <<>>]
    ELSE LET soil_mass == bd_values[soil_type] * 30 * 100000
         IN  [raised |-> FALSE,
              value |-> << (N_mgkg * (soil_mass \div 1000000)) \div Scale,
                           (P_mgkg * (soil_mass \div 1000000)) \div Scale,
                           (K_mgkg * (soil_mass \div 1000000)) \div Scale >>]

\* Returns (N, P, K) in kg/ha, or raises ValueError. soil_mass / 1e6 and the
\* inputs are both scaled, so each product is divided by Scale once more.
convert_mgkg_to_kgha(N_mgkg, P_mgkg, K_mgkg, soil_type) ==
    LET st == Lower(soil_type)
    IN  IF st \notin DOMAIN bd_values
        THEN [raised |-> TRUE, value |-> <<>>]
        ELSE LET bulk_density == bd_values[st]
                 soil_mass == bulk_density * 30 * 100000
             IN  [raised |-> FALSE,
                  value |-> << (N_mgkg * (soil_mass \div 1000000)) \div Scale,
                               (P_mgkg * (soil_mass \div 1000000)) \div Scale,
                               (K_mgkg * (soil_mass \div 1000000)) \div Scale >>]

----------------------------------------------------------------------------
(* Collaborators: identity verification, the image model's label table,    *)
(* the crop label encoder and the companion/avoid tables                    *)

\* An absent Authorization header (Header(None))
AuthNone == <<"None">>

\* jwt.decode: the tokens that verify, with the subject each carries
TokenSubjects == (<<"g">> :> "user-1")

\* Returns the subject, or raises HTTPException(401)
verify_supabase_token(token) ==
    IF token \in DOMAIN TokenSubjects
    THEN [raised |-> FALSE, sub |-> TokenSubjects[token]]
    ELSE [raised |-> TRUE, sub |-> ""]

\* result.names of the image model: class index (from 0) -> label
YoloNames ==
    << <<"S","a","n","d","y","_","T","r","a","i","n","e","d">>,
       <<"L","o","a","m","y","_","T","r","a","i","n","e","d">>,
       <<"C","l","a","y","_","T","r","a","i","n","e","d">>,
       <<"s","i","l","t">>,
       <<"N","o","t","_","s","o","i","l">>,
       <<"N","o"," ","S","o","i","l"," ","D","e","t","e","c","t","e","d">>,
       <<"N","o","t","_","s","o","i","l","_","T","r","a","i","n","e","d">>,
       <<"S","a","n","d","y","_","l","o","a","m","_","T","r","a","i","n","e","d">>,
       <<"P","e","a","t","_","T","r","a","i","n","e","d">> >>

\* The labels the pipeline treats as "not soil"
NotSoilLabels ==
    { <<"n","o","t","_","s","o","i","l">>,
      <<"n","o","_","s","o","i","l">>,
      <<"n","o","_","s","o","i","l","_","d","e","t","e","c","t","e","d">>,
      <<"n","o","t","s","o","i","l">> }

\* le_label.classes_: the sorted, stripped labels of reccocrop.csv
LabelClasses ==
    << <<"C","o","r","n">>,
       <<"k","a","l","e">>,
       <<"n","o","_","c","r","o","p">>,
       <<"r","i","c","e">> >>

\* le_label.inverse_transform([i])[0]: raises ValueError on an unseen index
inverse_transform(i) ==
    IF i \in 0..(Len(LabelClasses) - 1)
    THEN [raised |-> FALSE, label |-> LabelClasses[i + 1]]
    ELSE [raised |-> TRUE, label |-> <<>>]

\* companion_crops / avoid_crops: lower-cased crop -> list of lower-cased crops
companion_crops ==
    (<<"c","o","r","n">> :> << <<"b","e","a","n">>, <<"p","e","a">> >>)
    @@ (<<"r","i","c","e">> :> << <<"t","a","r","o">> >>)

avoid_crops ==
    (<<"c","o","r","n">> :> << <<"r","y","e">> >>)
    @@ (<<"r","i","c","e">> :> <<>>)

\* dict.get(key, default)
Get(table, key, default) == IF key \in DOMAIN table THEN table[key] ELSE default

----------------------------------------------------------------------------
(* Inputs *)

\* The number of classes of the crop model (model.pkl); the label table of
\* reccocrop.csv has Len(LabelClasses) of them
NumXgbClasses == 5

\* The Authorization headers tried: absent, empty, a non-bearer scheme, a
\* lower-case scheme, a bearer with no token, with a bad and with a good token
AuthHeaders ==
    { AuthNone,
      <<>>,
      <<"B","a","s","i","c"," ","g">>,
      <<"b","e","a","r","e","r"," ","g">>,
      s_Bearer,
      s_Bearer \o <<"x">>,
      s_Bearer \o <<"g">> }

\* Raw readings (mg/kg) and pH of the requests tried
Requests ==
    [N : {-1 * Scale, 0, 17 * Scale, 105 * Scale, 150 * Scale},
     P : {20 * Scale, 150 * Scale},
     K : {44 * Scale, 150 * Scale},
     ph : {349, 350, 490, 950, 951}]

\* What the pre-filter measures on the fetched image: whether cv2 reads it,
\* whether cv2 raises, brown ratio (%), mean saturation, Laplacian variance,
\* edge ratio (%)
Images ==
    [readable : BOOLEAN, raises : BOOLEAN, brown_ratio : {14, 15},
     avg_saturation : {150, 151}, texture_variance : {49, 50}, edge_ratio : {30, 31}]

\* What yolo_model.predict does: raises, or returns a result whose probs is
\* None or carries top1 and top1conf
YoloOutcomes ==
    { [raises |-> TRUE, probs |-> FALSE, top1conf |-> 0, top1 |-> 0],
      [raises |-> FALSE, probs |-> FALSE, top1conf |-> 0, top1 |-> 0] }
    \cup [raises : {FALSE}, probs : {TRUE}, top1conf : {30, 49, 50, 90},
          top1 : 0..(Len(YoloNames) - 1)]

\* The non-zero entries of the probability vectors tried: certain, at and just
\* under the 0.7 threshold, a tie, and a spread with no class above 0.5
ProbShapes == { <<100>>, <<70, 30>>, <<69, 31>>, <<50, 50>>, <<40, 30, 30>> }

XgbClasses == 0..(NumXgbClasses - 1)

Injections(D, C) == { f \in [D -> C] : \A a, b \in D : a # b => f[a] # f[b] }

\* Well-formed probability vectors: one entry per class, summing to 1; each
\* shape placed on every choice of classes, the other classes at 0
ProbVectors ==
    UNION { { [c \in XgbClasses |->
                 IF \E i \in DOMAIN s : f[i] = c
                 THEN s[CHOOSE i \in DOMAIN s : f[i] = c]
                 ELSE 0] : f \in Injections(DOMAIN s, XgbClasses) } : s \in ProbShapes }

\* The greatest entry of a probability vector
MaxOf(v) == CHOOSE x \in { v[i] : i \in DOMAIN v } : \A j \in DOMAIN v : v[j] <= x

\* xgb_model.predict: the first class of greatest probability
ArgMax(v) ==
    CHOOSE i \in DOMAIN v :
        /\ \A j \in DOMAIN v : v[j] <= v[i]
        /\ \A j \in DOMAIN v : v[j] = v[i] => i <= j

\* What the crop model does: predict raises, or it predicts the class of
\* greatest probability, with or without predict_proba support
XgbOutcomes ==
    { [raises |-> TRUE, has_proba |-> FALSE, proba |-> [i \in XgbClasses |-> 0]] }
    \cup [raises : {FALSE}, has_proba : BOOLEAN, proba : ProbVectors]

----------------------------------------------------------------------------
(* is_likely_soil *)

is_likely_soil(img) ==
    IF img.raises
    THEN [is_soil |-> TRUE, reason |-> "Pre-filter error, allowing YOLO check"]
    ELSE IF ~img.readable
    THEN [is_soil |-> FALSE, reason |-> "Could not read image"]
    ELSE IF img.brown_ratio < 15
    THEN [is_soil |-> FALSE, reason |-> "Insufficient brown tones"]
    ELSE IF img.avg_saturation > 150
    THEN [is_soil |-> FALSE, reason |-> "Too saturated"]
    ELSE IF img.texture_variance < 50
    THEN [is_soil |-> FALSE, reason |-> "Too smooth"]
    ELSE IF img.edge_ratio > 30
    THEN [is_soil |-> FALSE, reason |-> "Too many edges"]
    ELSE [is_soil |-> TRUE, reason |-> "Passed pre-filter"]

----------------------------------------------------------------------------
(* State of one request to /predict *)

VARIABLES
    pc,               \* where the handler is
    authorization,    \* the Authorization header
    req,              \* the request body: N, P, K, ph
    user_id,          \* the verified subject
    prefilter,        \* (is_soil, reason), once the pre-filter has run
    yolo,             \* the image model's outcome, once it has run
    xgb,              \* the crop model's prediction, once it has run
    path,             \* which branch decided the outcome
    soil_texture, recommended_crop, companions, avoids, crop_confidence,
    N, P, K,          \* converted values
    status,           \* HTTP status: 0 while the request is in progress
    detail,           \* the error's cause string
    response,         \* the success body
    calls,            \* how often each collaborator was invoked
    fetched,          \* outcome of requests.get: None until attempted
    sink,             \* outcome of the insert: None until attempted
    soil_results,     \* the rows inserted
    cv                \* the conversion script's state

pipeVars ==
    <<pc, authorization, req, user_id, prefilter, yolo, xgb, path, soil_texture,
      recommended_crop, companions, avoids, crop_confidence, N, P, K, status,
      detail, response, calls, fetched, sink, soil_results>>

vars == <<pipeVars, cv>>

NoCalls ==
    [fetch |-> 0, prefilter |-> 0, yolo |-> 0, convert |-> 0, xgb |-> 0,
     lookup |-> 0, insert |-> 0]

Called(what) == calls' = [calls EXCEPT ![what] = @ + 1]

\* The handler's locals before any is assigned
PipeStart ==
    /\ pc = "auth"
    /\ user_id = ""
    /\ prefilter = None
    /\ yolo = None
    /\ xgb = None
    /\ path = ""
    /\ soil_texture = <<>>
    /\ recommended_crop = <<>>
    /\ companions = <<>>
    /\ avoids = <<>>
    /\ crop_confidence = None
    /\ N = 0 /\ P = 0 /\ K = 0
    /\ status = 0
    /\ detail = ""
    /\ response = None
    /\ calls = NoCalls
    /\ fetched = None
    /\ sink = None
    /\ soil_results = <<>>

\* The conversion script is not running
CvOff ==
    [pc |-> "off", N |-> 0, P |-> 0, K |-> 0, soil_type |-> <<>>, out |-> None,
     prev |-> None]

Init ==
    /\ authorization \in AuthHeaders
    /\ req \in Requests
    /\ PipeStart
    /\ cv = CvOff

\* raise HTTPException(status_code, detail): the request ends there
Raise(code, cause) ==
    /\ status' = code
    /\ detail' = cause
    /\ pc' = "done"

locals == <<soil_texture, recommended_crop, companions, avoids, crop_confidence, path>>

----------------------------------------------------------------------------
(* predict: authentication *)

\* The same step with the token never verified: any bearer token is let in
Authenticate_unverified ==
    /\ pc = "auth"
    /\ IF authorization = AuthNone \/ authorization = <<>>
          \/ ~StartsWith(authorization, s_Bearer)
       THEN /\ Raise(401, "Missing or invalid Authorization header")
            /\ UNCHANGED user_id
       ELSE /\ user_id' = "user-1"
            /\ pc' = "fetch"
            /\ UNCHANGED <<status, detail>>
    /\ UNCHANGED <<authorization, req, prefilter, yolo, xgb, locals, N, P, K,
                   response, calls, fetched, sink, soil_results, cv>>

Authenticate ==
    /\ pc = "auth"
    /\ IF authorization = AuthNone \/ authorization = <<>>
          \/ ~StartsWith(authorization, s_Bearer)
       THEN /\ Raise(401, "Missing or invalid Authorization header")
            /\ UNCHANGED user_id
       ELSE LET token == Split(authorization, " ")[2]
                v == verify_supabase_token(token)
            IN  IF v.raised
                THEN /\ Raise(401, "Invalid token")
                     /\ UNCHANGED user_id
                ELSE /\ user_id' = v.sub
                     /\ pc' = "fetch"
                     /\ UNCHANGED <<status, detail>>
    /\ UNCHANGED <<authorization, req, prefilter, yolo, xgb, locals, N, P, K,
                   response, calls, fetched, sink, soil_results, cv>>

----------------------------------------------------------------------------
(* predict: image fetch, pre-filter, image model *)

\* The same step with a failed fetch tried once more
FetchImage_retry ==
    /\ pc = "fetch"
    /\ \E outcome \in {"ok", "timeout", "error"} :
        /\ Called("fetch")
        /\ fetched' = Some(outcome)
        /\ IF outcome = "ok"
           THEN pc' = "prefilter" /\ UNCHANGED <<status, detail>>
           ELSE IF calls.fetch < 1
           THEN UNCHANGED <<pc, status, detail>>
           ELSE Raise(500, "YOLO prediction failed")
    /\ UNCHANGED <<authorization, req, user_id, prefilter, yolo, xgb, locals,
                   N, P, K, response, sink, soil_results, cv>>

\* requests.get(req.imageUrl, timeout=15); raise_for_status(); write the bytes
FetchImage ==
    /\ pc = "fetch"
    /\ \E outcome \in {"ok", "timeout", "error"} :
        /\ Called("fetch")
        /\ fetched' = Some(outcome)
        /\ IF outcome = "ok"
           THEN pc' = "prefilter" /\ UNCHANGED <<status, detail>>
           ELSE Raise(500, "YOLO prediction failed")
    /\ UNCHANGED <<authorization, req, user_id, prefilter, yolo, xgb, locals,
                   N, P, K, response, sink, soil_results, cv>>

\* The assignments of each "No soil detected" branch, up to its insert
NoSoil(branch) ==
    /\ soil_texture' = s_No_soil_detected
    /\ recommended_crop' = s_no_crop
    /\ companions' = <<>>
    /\ avoids' = <<>>
    /\ path' = branch
    /\ pc' = "insert"
    /\ UNCHANGED <<crop_confidence, status, detail>>

PreFilter ==
    /\ pc = "prefilter"
    /\ \E img \in Images :
        LET r == is_likely_soil(img)
        IN  /\ Called("prefilter")
            /\ prefilter' = Some(r)
            /\ IF ~r.is_soil
               THEN NoSoil("prefilter")
               ELSE pc' = "yolo" /\ UNCHANGED <<locals, status, detail>>
    /\ UNCHANGED <<authorization, req, user_id, yolo, xgb, N, P, K, response,
                   fetched, sink, soil_results, cv>>

\* The same test with the confidence threshold left out
Unsure_no_threshold(out) == ~out.probs

\* result.probs is None, or the top-1 confidence is under the threshold
Unsure(out) ==
    LET yolo_confidence == IF out.probs THEN out.top1conf ELSE 0
    IN  (~out.probs) \/ (yolo_confidence < SOIL_CONF_THRESHOLD)

\* str(raw_label).strip().lower().replace(" ", "_")
NormalizedLabel(raw_label) == Replace(Lower(Strip(raw_label)), <<" ">>, <<"_">>)

\* raw_label.replace("_Trained", "").capitalize()
TextureOf(raw_label) == Capitalize(Replace(raw_label, s_Trained, <<>>))

YoloPredict ==
    /\ pc = "yolo"
    /\ \E out \in YoloOutcomes :
        /\ Called("yolo")
        /\ yolo' = Some(out)
        /\ IF out.raises
           THEN Raise(500, "YOLO prediction failed") /\ UNCHANGED locals
           ELSE IF Unsure(out)
           THEN NoSoil("no_soil")
           ELSE LET raw_label == YoloNames[out.top1 + 1]
                IN  IF NormalizedLabel(raw_label) \in NotSoilLabels
                    THEN NoSoil("not_soil")
                    ELSE /\ soil_texture' = TextureOf(raw_label)
                         /\ path' = "main"
                         /\ pc' = "convert"
                         /\ UNCHANGED <<recommended_crop, companions, avoids,
                                        crop_confidence, status, detail>>
    /\ UNCHANGED <<authorization, req, user_id, prefilter, xgb, N, P, K, response,
                   fetched, sink, soil_results, cv>>

----------------------------------------------------------------------------
(* predict: conversion, range check, crop model *)

Convert ==
    /\ pc = "convert"
    /\ Called("convert")
    /\ LET r == convert_mgkg_to_kgha(req.N, req.P, req.K, soil_texture)
       IN  IF r.raised
           THEN Raise(400, "NPK conversion failed") /\ UNCHANGED <<N, P, K>>
           ELSE /\ N' = r.value[1]
                /\ P' = r.value[2]
                /\ K' = r.value[3]
                /\ pc' = "range"
                /\ UNCHANGED <<status, detail>>
    /\ UNCHANGED <<authorization, req, user_id, prefilter, yolo, xgb, locals,
                   response, fetched, sink, soil_results, cv>>

\* The same test with the bounds excluded
InRange_strict(lo, x, hi) == lo < x /\ x < hi

\* lo <= x <= hi
InRange(lo, x, hi) == lo <= x /\ x <= hi

RangeCheck ==
    /\ pc = "range"
    /\ companions' = <<>>
    /\ avoids' = <<>>
    /\ crop_confidence' = None
    /\ IF ~(InRange(NPK_MIN, N, NPK_MAX) /\ InRange(NPK_MIN, P, NPK_MAX)
            /\ InRange(NPK_MIN, K, NPK_MAX))
       THEN recommended_crop' = s_no_crop /\ pc' = "insert"
       ELSE IF ~InRange(PH_MIN, req.ph, PH_MAX)
       THEN recommended_crop' = s_no_crop /\ pc' = "insert"
       ELSE pc' = "xgb" /\ UNCHANGED recommended_crop
    /\ UNCHANGED <<authorization, req, user_id, prefilter, yolo, xgb, path,
                   soil_texture, N, P, K, status, detail, response, calls, fetched,
                   sink, soil_results, cv>>

\* CROP_CONF_THRESHOLD = 0.5, the legacy threshold
CROP_CONF_THRESHOLD == 50

\* The same gate on the legacy threshold
Gated_legacy(max_proba, decoded_label) ==
    (max_proba < CROP_CONF_THRESHOLD) \/ (Lower(Strip(decoded_label)) = s_no_crop)

\* (max_proba < CROP_TOP_PROB_THRESHOLD) or (decoded_label.strip().lower() == "no_crop")
Gated(max_proba, decoded_label) ==
    (max_proba < CROP_TOP_PROB_THRESHOLD) \/ (Lower(Strip(decoded_label)) = s_no_crop)

\* The same lookups with the crop label not lower-cased
Relations_no_lower(crop) ==
    [companions |-> Get(companion_crops, crop, <<>>),
     avoids |-> Get(avoid_crops, crop, <<>>)]

\* companion_crops.get(recommended_crop.lower(), []) and
\* avoid_crops.get(recommended_crop.lower(), [])
Relations(crop) ==
    [companions |-> Get(companion_crops, Lower(crop), <<>>),
     avoids |-> Get(avoid_crops, Lower(crop), <<>>)]

\* The try block of the crop stage on the model's outcome m: what it leaves in
\* recommended_crop, companions, avoids and crop_confidence, whether it raises,
\* and how many table lookups it made. What is unassigned keeps its value.
CropStage(m) ==
    LET keep == [raised |-> TRUE, recommended_crop |-> recommended_crop,
                 companions |-> companions, avoids |-> avoids,
                 crop_confidence |-> crop_confidence, lookups |-> 0,
                 pred_encoded |-> -1, max_proba |-> None]
    IN  IF m.raises THEN keep
        ELSE
        LET pred_encoded == ArgMax(m.proba)
            dec == inverse_transform(pred_encoded)
            no_crop(conf, mp) ==
                [raised |-> FALSE, recommended_crop |-> s_no_crop, companions |-> <<>>,
                 avoids |-> <<>>, crop_confidence |-> conf, lookups |-> 0,
                 pred_encoded |-> pred_encoded, max_proba |-> mp]
            crop(conf, mp) ==
                [raised |-> FALSE, recommended_crop |-> dec.label,
                 companions |-> Relations(dec.label).companions,
                 avoids |-> Relations(dec.label).avoids,
                 crop_confidence |-> conf, lookups |-> 2,
                 pred_encoded |-> pred_encoded, max_proba |-> mp]
        IN  IF m.has_proba
            THEN LET class_pos == pred_encoded
                     max_proba == m.proba[class_pos]
                 IN  IF dec.raised
                     THEN [keep EXCEPT !.crop_confidence = Some(max_proba),
                                       !.pred_encoded = pred_encoded,
                                       !.max_proba = Some(max_proba)]
                     ELSE IF Gated(max_proba, dec.label)
                     THEN no_crop(Some(max_proba), Some(max_proba))
                     ELSE crop(Some(max_proba), Some(max_proba))
            ELSE IF dec.raised
                 THEN [keep EXCEPT !.pred_encoded = pred_encoded]
                 ELSE IF Lower(Strip(dec.label)) = s_no_crop
                 THEN no_crop(None, None)
                 ELSE crop(None, None)

CropClassify ==
    /\ pc = "xgb"
    /\ \E m \in XgbOutcomes :
        LET r == CropStage(m)
        IN  /\ calls' = [calls EXCEPT !.xgb = @ + 1, !.lookup = @ + r.lookups]
            /\ xgb' = Some([raises |-> m.raises, has_proba |-> m.has_proba,
                            pred_encoded |-> r.pred_encoded, max_proba |-> r.max_proba,
                            top_proba |-> MaxOf(m.proba)])
            /\ recommended_crop' = r.recommended_crop
            /\ companions' = r.companions
            /\ avoids' = r.avoids
            /\ crop_confidence' = r.crop_confidence
            /\ IF r.raised
               THEN Raise(500, "XGBoost prediction failed")
               ELSE pc' = "insert" /\ UNCHANGED <<status, detail>>
    /\ UNCHANGED <<authorization, req, user_id, prefilter, yolo, path, soil_texture,
                   N, P, K, response, fetched, sink, soil_results, cv>>

----------------------------------------------------------------------------
(* predict: insert into soil_results, return *)

\* The same row with the converted values in place of the request's
Row_converted ==
    [user_id |-> user_id,
     prediction |-> IF path = "prefilter"
                    THEN <<soil_texture, prefilter[1].reason>>
                    ELSE <<soil_texture>>,
     recommended_crop |-> recommended_crop,
     n |-> IF path = "main" THEN N ELSE req.N,
     p |-> IF path = "main" THEN P ELSE req.P,
     k |-> IF path = "main" THEN K ELSE req.K,
     ph_level |-> req.ph,
     companions |-> companions, avoids |-> avoids]

\* The row handed to supabase.table("soil_results").insert; pot_name,
\* image_name, image_url and created_at are left out
Row ==
    [user_id |-> user_id,
     prediction |-> IF path = "prefilter"
                    THEN <<soil_texture, prefilter[1].reason>>
                    ELSE <<soil_texture>>,
     recommended_crop |-> recommended_crop,
     n |-> req.N, p |-> req.P, k |-> req.K, ph_level |-> req.ph,
     companions |-> companions, avoids |-> avoids]

\* The same step without the try/except around the insert
InsertRow_unguarded ==
    /\ pc = "insert"
    /\ \E ok \in BOOLEAN :
        /\ Called("insert")
        /\ sink' = Some(ok)
        /\ IF ok
           THEN /\ soil_results' = Append(soil_results, Row)
                /\ pc' = "return"
                /\ UNCHANGED <<status, detail>>
           ELSE /\ Raise(500, "Internal Server Error")
                /\ UNCHANGED soil_results
    /\ UNCHANGED <<authorization, req, user_id, prefilter, yolo, xgb, locals,
                   N, P, K, response, fetched, cv>>

\* try: insert(...).execute()  except Exception: print(...)
InsertRow ==
    /\ pc = "insert"
    /\ \E ok \in BOOLEAN :
        /\ Called("insert")
        /\ sink' = Some(ok)
        /\ soil_results' = IF ok THEN Append(soil_results, Row) ELSE soil_results
    /\ pc' = "return"
    /\ UNCHANGED <<authorization, req, user_id, prefilter, yolo, xgb, locals,
                   N, P, K, status, detail, response, fetched, cv>>

\* The dict each return statement builds
Body ==
    [soil_texture |-> soil_texture,
     recommended_crop |-> recommended_crop,
     companions |-> companions,
     avoid |-> avoids,
     confidence |-> IF path = "main" THEN crop_confidence ELSE None,
     converted_values |->
        IF path = "main"
        THEN [N |-> N, P |-> P, K |-> K, ph |-> req.ph]
        ELSE [N |-> req.N, P |-> req.P, K |-> req.K, ph |-> req.ph]]

Return ==
    /\ pc = "return"
    /\ status' = 200
    /\ response' = Some(Body)
    /\ pc' = "done"
    /\ UNCHANGED <<authorization, req, user_id, prefilter, yolo, xgb, locals,
                   N, P, K, detail, calls, fetched, sink, soil_results, cv>>

Next ==
    \/ Authenticate
    \/ FetchImage
    \/ PreFilter
    \/ YoloPredict
    \/ Convert
    \/ RangeCheck
    \/ CropClassify
    \/ InsertRow
    \/ Return

Spec == Init /\ [][Next]_vars

----------------------------------------------------------------------------
(* The conversion script (test_xgb.py): convert_mgkg_to_kgha called on its  *)
(* own, once and then once more with other readings for the same texture    *)

\* Readings tried (mg/kg): the script's 17, 20, 44 and 0
CvReadings == {0, 17 * Scale, 20 * Scale, 44 * Scale}

\* Texture strings tried
CvTextures ==
    { <<"C","l","a","y">>, s_clay, <<"C","L","A","Y">>,
      <<"S","a","n","d","y">>, <<"L","o","a","m","y">>, <<"S","i","l","t">>,
      s_No_soil_detected, <<>>, <<"P","e","a","t">>,
      <<"c","l","a","y","e","y">>, <<"c","l","a","y"," ">> }

InitConvert ==
    /\ authorization = AuthNone
    /\ req = [N |-> 17 * Scale, P |-> 20 * Scale, K |-> 44 * Scale, ph |-> 490]
    /\ PipeStart
    /\ \E n \in CvReadings, p \in CvReadings, k \in CvReadings, t \in CvTextures :
        cv = [pc |-> "call", N |-> n, P |-> p, K |-> k, soil_type |-> t,
              out |-> None, prev |-> None]

\* N, P, K = convert_mgkg_to_kgha(N_raw, P_raw, K_raw, soil_texture)
CvCall ==
    /\ cv.pc = "call"
    /\ cv' = [cv EXCEPT !.pc = "called",
                        !.out = Some(convert_mgkg_to_kgha(cv.N, cv.P, cv.K, cv.soil_type))]
    /\ UNCHANGED pipeVars

\* The inputs are adjusted and the script is run again
CvAgain ==
    /\ cv.pc = "called"
    /\ cv.prev = None
    /\ \E n \in CvReadings, p \in CvReadings, k \in CvReadings :
        cv' = [cv EXCEPT !.pc = "call", !.N = n, !.P = p, !.K = k, !.out = None,
                         !.prev = Some([N |-> cv.N, P |-> cv.P, K |-> cv.K,
                                        out |-> cv.out[1]])]
    /\ UNCHANGED pipeVars

NextConvert ==
    \/ CvCall
    \/ CvAgain

SpecConvert == InitConvert /\ [][NextConvert]_vars

----------------------------------------------------------------------------
(* Properties *)

\* The factor soil_mass / 1e6 per lower-case texture: 4.8, 3.9, 3.45, 3.75
Factor == (s_sandy :> 480) @@ (s_loamy :> 390) @@ (s_clay :> 345) @@ (s_silt :> 375)

Scaled(x, texture) == (x * Factor[texture]) \div Scale

RawValues == [N |-> req.N, P |-> req.P, K |-> req.K, ph |-> req.ph]

\* The success body of a "No soil detected" outcome
NoSoilBody ==
    [soil_texture |-> s_No_soil_detected, recommended_crop |-> s_no_crop,
     companions |-> <<>>, avoid |-> <<>>, confidence |-> None,
     converted_values |-> RawValues]

\* The image model returned a result (it did not raise)
YoloReturned == yolo # None /\ ~yolo[1].raises

YoloLabel == YoloNames[yolo[1].top1 + 1]

YoloConfident == YoloReturned /\ yolo[1].probs /\ yolo[1].top1conf >= SOIL_CONF_THRESHOLD

\* C1: once the image model has returned no class probabilities, or a top-1
\* confidence under SOIL_CONF_THRESHOLD, whatever the top-1 label, the outcome
\* is "No soil detected" / no_crop with empty lists, neither the converter nor
\* the crop model is called, and the request ends with status 200 and the
\* no-soil body carrying the raw N, P, K, ph.
C1_UnsureIsNoSoil ==
    (YoloReturned /\ (~yolo[1].probs \/ yolo[1].top1conf < SOIL_CONF_THRESHOLD))
    => /\ pc \in {"insert", "return", "done"}
       /\ calls.convert = 0
       /\ calls.xgb = 0
       /\ soil_texture = s_No_soil_detected
       /\ recommended_crop = s_no_crop
       /\ status \in {0, 200}
       /\ pc = "done" => (status = 200 /\ response = Some(NoSoilBody))

\* A soil label reported with confidence 0.49 ended as "No soil detected"
C1_Witness ==
    /\ pc = "done"
    /\ YoloReturned
    /\ yolo[1].probs
    /\ yolo[1].top1conf = 49
    /\ Lower(TextureOf(YoloLabel)) = s_sandy
    /\ status = 200
    /\ response = Some(NoSoilBody)

\* The label with the training suffix stripped, then normalized, is a not-soil
\* sentinel
SentinelLabel(raw_label) ==
    NormalizedLabel(Replace(raw_label, s_Trained, <<>>)) \in NotSoilLabels

\* C2: a top-1 label at or above the threshold that, with "_Trained" stripped
\* and normalized, is a not-soil sentinel gives the no-soil outcome: the
\* converter and the crop model are never reached and the request ends with
\* status 200 and the no-soil body.
C2_SentinelLabelIsNoSoil ==
    (YoloConfident /\ SentinelLabel(YoloLabel))
    => /\ calls.convert = 0
       /\ calls.xgb = 0
       /\ status \in {0, 200}
       /\ pc = "done" => (status = 200 /\ response = Some(NoSoilBody))

KnownTextures ==
    { <<"S","a","n","d","y">>, <<"L","o","a","m","y">>, <<"C","l","a","y">>,
      <<"S","i","l","t">> }

\* C3: a top-1 label at or above the threshold that is not a not-soil sentinel
\* gives a texture among Sandy, Loamy, Clay, Silt, so the conversion never
\* fails and no request ends with status 400.
C3_TextureIsKnown ==
    (YoloConfident /\ ~SentinelLabel(YoloLabel))
    => /\ soil_texture \in KnownTextures
       /\ status # 400

\* The converted values and the pH are all within their bounds
AllInRange ==
    /\ NPK_MIN <= N /\ N <= NPK_MAX
    /\ NPK_MIN <= P /\ P <= NPK_MAX
    /\ NPK_MIN <= K /\ K <= NPK_MAX
    /\ PH_MIN <= req.ph /\ req.ph <= PH_MAX

\* The range check has run
RangeChecked == calls.convert = 1 /\ status # 400 /\ pc # "range"

\* C4: after the conversion and the range check, with a converted N, P or K
\* outside [0, 500] or a pH outside [3.5, 9.5] the crop model and the lookup
\* are not called and the request ends with status 200, no_crop, empty lists,
\* no confidence and the converted N, P, K with the request's pH; with all four
\* within the bounds, bounds included, the crop model is called next.
C4_RangeGate ==
    RangeChecked
    => IF AllInRange
       THEN pc = "xgb" \/ calls.xgb = 1
       ELSE /\ calls.xgb = 0
            /\ calls.lookup = 0
            /\ pc \in {"insert", "return", "done"}
            /\ pc = "done" =>
                 /\ status = 200
                 /\ response =
                      Some([soil_texture |-> soil_texture,
                            recommended_crop |-> s_no_crop,
                            companions |-> <<>>, avoid |-> <<>>, confidence |-> None,
                            converted_values |->
                               [N |-> Scaled(req.N, Lower(soil_texture)),
                                P |-> Scaled(req.P, Lower(soil_texture)),
                                K |-> Scaled(req.K, Lower(soil_texture)),
                                ph |-> req.ph]])

\* 150 mg/kg of N on sandy soil converts to 720 kg/ha and ends as no_crop
C4_Witness ==
    /\ pc = "done"
    /\ status = 200
    /\ path = "main"
    /\ N = 720 * Scale
    /\ req.ph = 490
    /\ calls.xgb = 0
    /\ response[1].recommended_crop = s_no_crop
    /\ response[1].converted_values.N = 720 * Scale

\* The crop model returned with probabilities and the class decodes
XgbDecoded ==
    /\ xgb # None
    /\ ~xgb[1].raises
    /\ xgb[1].has_proba
    /\ xgb[1].pred_encoded \in 0..(Len(LabelClasses) - 1)

XgbLabel == LabelClasses[xgb[1].pred_encoded + 1]

\* C5: with class probabilities, a top probability under
\* CROP_TOP_PROB_THRESHOLD or a decoded label no_crop gives recommended_crop
\* no_crop; otherwise the decoded label with the top probability as confidence.
C5_CropGate ==
    XgbDecoded
    => IF xgb[1].top_proba < CROP_TOP_PROB_THRESHOLD \/ XgbLabel = s_no_crop
       THEN recommended_crop = s_no_crop
       ELSE /\ recommended_crop = XgbLabel
            /\ crop_confidence = Some(xgb[1].top_proba)
            /\ pc = "done" =>
                 /\ status = 200
                 /\ response[1].recommended_crop = XgbLabel
                 /\ response[1].confidence = Some(xgb[1].top_proba)

\* Corn predicted at 0.69 ended as no_crop
C5_Witness ==
    /\ pc = "done"
    /\ XgbDecoded
    /\ xgb[1].top_proba = 69
    /\ XgbLabel = <<"C","o","r","n">>
    /\ status = 200
    /\ response[1].recommended_crop = s_no_crop

\* C6: when the predicted class index is absent from the label table, the
\* request still ends with status 200, no_crop and empty lists, never with an
\* error status.
C6_DecodeFailureIsNoCrop ==
    (xgb # None /\ ~xgb[1].raises
     /\ xgb[1].pred_encoded \notin 0..(Len(LabelClasses) - 1))
    => /\ status \in {0, 200}
       /\ pc = "done" =>
            /\ status = 200
            /\ response[1].recommended_crop = s_no_crop
            /\ response[1].companions = <<>>
            /\ response[1].avoid = <<>>

\* The body the request returns when its insert succeeds: the outcome decided
\* before the insert, with raw values on the no-soil branches
DecidedBody ==
    [soil_texture |-> soil_texture, recommended_crop |-> recommended_crop,
     companions |-> companions, avoid |-> avoids,
     confidence |-> IF path = "main" THEN crop_confidence ELSE None,
     converted_values |->
        IF path \in {"prefilter", "no_soil", "not_soil"}
        THEN RawValues
        ELSE [N |-> N, P |-> P, K |-> K, ph |-> req.ph]]

\* C7: on every branch, a failed insert is swallowed: the request goes on to
\* return status 200 with the body decided before the insert, and no row is
\* added.
C7_InsertFailureSwallowed ==
    (sink = Some(FALSE))
    => /\ pc \in {"return", "done"}
       /\ status \in {0, 200}
       /\ soil_results = <<>>
       /\ pc = "done" => (status = 200 /\ response = Some(DecidedBody))

\* A concrete crop was returned although its insert failed
C7_Witness ==
    /\ pc = "done"
    /\ sink = Some(FALSE)
    /\ path = "main"
    /\ status = 200
    /\ response[1].recommended_crop = <<"C","o","r","n">>
    /\ response[1].companions = companion_crops[<<"c","o","r","n">>]

\* The header is present, starts with "Bearer " and its token verifies
CredentialOk ==
    /\ authorization # AuthNone
    /\ StartsWith(authorization, s_Bearer)
    /\ Split(authorization, " ")[2] \in DOMAIN TokenSubjects

\* C8: with a missing header, one not starting with "Bearer ", or a token that
\* fails verification, the request ends with status 401 and nothing else
\* happens: no fetch, pre-filter, model call or insert.
C8_Unauthorized ==
    ~CredentialOk
    => /\ pc \in {"auth", "done"}
       /\ calls = NoCalls
       /\ soil_results = <<>>
       /\ pc = "done" => (status = 401 /\ response = None)

\* A bearer token that does not verify ended with 401
C8_Witness ==
    /\ pc = "done"
    /\ authorization = s_Bearer \o <<"x">>
    /\ status = 401
    /\ calls = NoCalls

\* C9: a fetch that times out or errors, or an image model that raises, ends
\* the request with status 500 after one fetch, with no body, no conversion,
\* no crop model call and no insert.
C9_ClassificationFailed ==
    (fetched \in {Some("timeout"), Some("error")} \/ (yolo # None /\ yolo[1].raises))
    => /\ pc = "done"
       /\ status = 500
       /\ response = None
       /\ calls.fetch = 1
       /\ calls.convert = 0
       /\ calls.xgb = 0
       /\ calls.insert = 0
       /\ soil_results = <<>>

\* A fetch timed out and the request ended with 500
C9_Witness ==
    /\ pc = "done"
    /\ fetched = Some("timeout")
    /\ status = 500
    /\ calls.fetch = 1
    /\ calls.prefilter = 0

\* C10: for a texture whose lower-case form is sandy, loamy, clay or silt the
\* conversion returns each reading times 4.8, 3.9, 3.45 or 3.75, so for
\* readings >= 0 a greater reading never gives a smaller result, and Clay with
\* 17, 20, 44 gives 58.65, 69.0, 151.8; for any other texture string it raises
\* and returns nothing.
C10_Convert ==
    (cv.out # None)
    => LET t == Lower(cv.soil_type)
           out == cv.out[1]
       IN  IF t \in {s_sandy, s_loamy, s_clay, s_silt}
           THEN /\ ~out.raised
                /\ out.value = <<Scaled(cv.N, t), Scaled(cv.P, t), Scaled(cv.K, t)>>
                /\ (cv.soil_type = <<"C","l","a","y">> /\ cv.N = 1700 /\ cv.P = 2000
                    /\ cv.K = 4400) => out.value = <<5865, 6900, 15180>>
                /\ cv.prev # None =>
                     /\ cv.prev[1].N <= cv.N => cv.prev[1].out.value[1] <= out.value[1]
                     /\ cv.prev[1].P <= cv.P => cv.prev[1].out.value[2] <= out.value[2]
                     /\ cv.prev[1].K <= cv.K => cv.prev[1].out.value[3] <= out.value[3]
           ELSE out.raised /\ out.value = <<>>

\* Clay with 17, 20, 44 was converted after a call with smaller readings
C10_Witness ==
    /\ cv.out # None
    /\ cv.prev # None
    /\ cv.soil_type = <<"C","l","a","y">>
    /\ cv.N = 1700 /\ cv.P = 2000 /\ cv.K = 4400
    /\ cv.prev[1].N = 0
    /\ cv.out[1].value = <<5865, 6900, 15180>>

\* The lists the static tables hold for a crop label: the entries under its
\* lower-case form, or two empty lists when it has none
TableEntries(crop) ==
    LET key == Lower(crop)
    IN  [companions |-> IF key \in DOMAIN companion_crops
                        THEN companion_crops[key] ELSE <<>>,
         avoid |-> IF key \in DOMAIN avoid_crops THEN avoid_crops[key] ELSE <<>>]

\* C11: in every success response, companions and avoid follow from the
\* recommended crop: both are empty for no_crop; for a concrete crop they are
\* the tables' entries under the lower-cased label, and two empty lists, not
\* an error, when the label has no entry.
C11_RelationsFollowCrop ==
    /\ (pc = "done" /\ status = 200)
       => IF response[1].recommended_crop = s_no_crop
          THEN response[1].companions = <<>> /\ response[1].avoid = <<>>
          ELSE /\ response[1].companions = TableEntries(response[1].recommended_crop).companions
               /\ response[1].avoid = TableEntries(response[1].recommended_crop).avoid
    /\ (xgb # None /\ ~xgb[1].raises
        /\ xgb[1].pred_encoded \in 0..(Len(LabelClasses) - 1))
       => status \in {0, 200}

\* kale, which has no table entry, was recommended with two empty lists
C11_Witness ==
    /\ pc = "done"
    /\ status = 200
    /\ response[1].recommended_crop = <<"k","a","l","e">>
    /\ Lower(response[1].recommended_crop) \notin DOMAIN companion_crops
    /\ response[1].companions = <<>>
    /\ response[1].avoid = <<>>

\* The crop stage returned no_crop on the crop model's outcome m
StageNoCrop(m) == ~CropStage(m).raised /\ CropStage(m).recommended_crop = s_no_crop

\* C12: the confidence reported when the crop stage returns no_crop is of one
\* kind: a response with such a no_crop has a null confidence exactly when
\* every other outcome of the crop model that gives no_crop (probability under
\* the threshold, decoded no_crop label, with or without predict_proba) has.
C12_NoCropConfidenceConsistent ==
    (pc = "done" /\ status = 200 /\ xgb # None /\ recommended_crop = s_no_crop)
    => \A m \in XgbOutcomes :
          StageNoCrop(m)
          => ((CropStage(m).crop_confidence = None) <=> (response[1].confidence = None))

\* The image model returned the no-soil outcome: no probabilities, a confidence
\* under the threshold, or a not-soil label
YoloSaidNoSoil ==
    /\ YoloReturned
    /\ \/ ~yolo[1].probs
       \/ yolo[1].top1conf < SOIL_CONF_THRESHOLD
       \/ NormalizedLabel(YoloLabel) \in NotSoilLabels

\* C13: a request whose image was fetched does not end before the image model
\* has been invoked, and it ends as "No soil detected" only on the image
\* model's no-soil outcome, never on the pre-filter alone.
C13_ImageModelDecides ==
    (fetched = Some("ok") /\ pc = "done")
    => /\ calls.yolo = 1
       /\ (status = 200 /\ response[1].soil_texture = s_No_soil_detected)
          => YoloSaidNoSoil

\* C14: a request that returns a success response has made exactly one insert
\* attempt, after its outcome was decided and before the response exists, and
\* the row carries the request's raw N, P, K and ph with the outcome returned;
\* a request that ends with 401, 400 or 500 has made none.
C14_OneInsertPerSuccess ==
    /\ calls.insert \in {0, 1}
    /\ (pc = "done" /\ status = 200) => calls.insert = 1
    /\ (pc = "done" /\ status # 200) => (calls.insert = 0 /\ soil_results = <<>>)
    /\ response # None => calls.insert = 1
    /\ calls.insert = 1 => (pc \in {"return", "done"} /\ recommended_crop # <<>>)
    /\ Len(soil_results) <= calls.insert
    /\ \A i \in DOMAIN soil_results :
          /\ soil_results[i].n = req.N
          /\ soil_results[i].p = req.P
          /\ soil_results[i].k = req.K
          /\ soil_results[i].ph_level = req.ph
          /\ soil_results[i].recommended_crop = recommended_crop
          /\ soil_results[i].companions = companions
          /\ soil_results[i].avoids = avoids
          /\ soil_results[i].prediction[1] = soil_texture

\* A row with the raw 17 mg/kg was inserted while 58.65 kg/ha was returned
C14_Witness ==
    /\ pc = "done"
    /\ status = 200
    /\ calls.insert = 1
    /\ Len(soil_results) = 1
    /\ soil_results[1].n = 17 * Scale
    /\ response[1].converted_values.N = 5865

====
